---------------------------- MODULE Spec2Model ----------------------------
(***************************************************************************)
(* Model of the check-links engine of royalbit/ref (bin/check-links.js):   *)
(* main -> processUrls (a pool of CONFIG.concurrency async workers sharing *)
(* one queue and one results array) -> checkUrl -> generateReport.         *)
(*                                                                         *)
(* JavaScript runs one continuation at a time, so one action is one run    *)
(* of code from the resumption of an await to the next await.  The fields  *)
(* `time` and `timestamp` (wall-clock readings) are left out.              *)
(***************************************************************************)
EXTENDS Integers, Sequences, FiniteSets, TLC

(***************************************************************************)
(* Bounds of the model.                                                    *)
(***************************************************************************)
MaxTargets == 3          \* longest list of urls handed to processUrls
MaxConcurrency == 2      \* largest CONFIG.concurrency explored (code: 1..20)
MaxRetries == 2          \* largest CONFIG.retries explored
MaxStatus == 1000        \* largest HTTP status the single-URL runs explore
MaxInput == 2            \* longest raw input (matches of a file, lines of stdin)

(***************************************************************************)
(* JavaScript null for a number field and for a string field.              *)
(***************************************************************************)
Null == -1
NullText == "<null>"

Urls == <<"https://a.example", "https://b.example", "https://c.example", "https://d.example">>

(***************************************************************************)
(* What page.goto can do: resolve with a response, resolve with no         *)
(* response (null), or throw an error with a message.                      *)
(***************************************************************************)
MsgDns == "net::ERR_NAME_NOT_RESOLVED at url"
MsgRefused == "net::ERR_CONNECTION_REFUSED at url"
MsgTimedOut == "net::ERR_CONNECTION_TIMED_OUT at url"
MsgNavTimeout == "Navigation timeout of 15000 ms exceeded"
MsgOther == "net::ERR_CERT_AUTHORITY_INVALID at url"
MsgTwo == "Navigation timeout of 15000 ms exceeded (net::ERR_CONNECTION_REFUSED)"

Messages == {MsgDns, MsgRefused, MsgTimedOut, MsgNavTimeout, MsgOther, MsgTwo}

\* String.prototype.includes on the messages above.
Includes(message, signature) ==
    CASE message = MsgDns -> signature = "net::ERR_NAME_NOT_RESOLVED"
      [] message = MsgRefused -> signature = "net::ERR_CONNECTION_REFUSED"
      [] message = MsgTimedOut -> signature = "net::ERR_CONNECTION_TIMED_OUT"
      [] message = MsgNavTimeout -> signature = "Navigation timeout"
      [] message = MsgTwo ->
             signature \in {"Navigation timeout", "net::ERR_CONNECTION_REFUSED"}
      [] OTHER -> FALSE

\* response.statusText(): the reason phrase of the response ("" over HTTP/2).
ReasonPhrase(status) ==
    CASE status = 200 -> "OK"
      [] status = 301 -> "Moved Permanently"
      [] status = 403 -> "Forbidden"
      [] status = 404 -> "Not Found"
      [] status = 500 -> "Internal Server Error"
      [] OTHER -> ""

Response(status) ==
    [kind |-> "response", status |-> status, statusText |-> ReasonPhrase(status),
     title |-> "Title", message |-> NullText]
NoResponse ==
    [kind |-> "null", status |-> Null, statusText |-> NullText,
     title |-> "Title", message |-> NullText]
Thrown(message) ==
    [kind |-> "error", status |-> Null, statusText |-> NullText,
     title |-> NullText, message |-> message]

\* Sites that answer or fail to resolve; sites that are gone or fail with an
\* error of no known signature.
FlakyBackend == {Response(200), Thrown(MsgDns)}
BrokenBackend == {Response(404), Thrown(MsgOther)}
\* Sites behind bot protection: status 999 or no answer in time.
GuardedBackend == {Response(999), Thrown(MsgNavTimeout)}
\* Every status a response can carry, and every other kind of outcome.
AllStatusBackend ==
    {Response(s) : s \in 0..MaxStatus} \cup {NoResponse} \cup {Thrown(m) : m \in Messages}

\* JavaScript `x || d` on a number field: d when x is null or 0.
OrElse(x, d) == IF x = Null \/ x = 0 THEN d ELSE x

(***************************************************************************)
(* checkUrl(page, url): the result object it returns for an outcome of     *)
(* page.goto.                                                              *)
(***************************************************************************)
\* checkUrl with the test for a navigation timeout put first.
CheckUrlTimeoutFirst(url, outcome) ==
    IF outcome.kind = "response"
    THEN [url |-> url,
          status |-> OrElse(outcome.status, 0),
          statusText |-> IF outcome.statusText = "" THEN "Unknown" ELSE outcome.statusText,
          title |-> outcome.title,
          error |-> NullText]
    ELSE IF outcome.kind = "null"
    THEN [url |-> url, status |-> 0, statusText |-> "Unknown",
          title |-> outcome.title, error |-> NullText]
    ELSE LET message == outcome.message
             base == [url |-> url, status |-> Null, statusText |-> NullText,
                      title |-> NullText, error |-> message]
         IN  IF Includes(message, "Navigation timeout")
             THEN [base EXCEPT !.status = 0, !.statusText = "NAV_TIMEOUT"]
             ELSE IF Includes(message, "net::ERR_NAME_NOT_RESOLVED")
             THEN [base EXCEPT !.status = 0, !.statusText = "DNS_FAILED"]
             ELSE IF Includes(message, "net::ERR_CONNECTION_REFUSED")
             THEN [base EXCEPT !.status = 0, !.statusText = "CONNECTION_REFUSED"]
             ELSE IF Includes(message, "net::ERR_CONNECTION_TIMED_OUT")
             THEN [base EXCEPT !.status = 0, !.statusText = "TIMEOUT"]
             ELSE base

CheckUrl(url, outcome) ==
    IF outcome.kind = "response"
    THEN [url |-> url,
          status |-> OrElse(outcome.status, 0),
          statusText |-> IF outcome.statusText = "" THEN "Unknown" ELSE outcome.statusText,
          title |-> outcome.title,
          error |-> NullText]
    ELSE IF outcome.kind = "null"
    THEN [url |-> url, status |-> 0, statusText |-> "Unknown",
          title |-> outcome.title, error |-> NullText]
    ELSE LET message == outcome.message
             base == [url |-> url, status |-> Null, statusText |-> NullText,
                      title |-> NullText, error |-> message]
         IN  IF Includes(message, "net::ERR_NAME_NOT_RESOLVED")
             THEN [base EXCEPT !.status = 0, !.statusText = "DNS_FAILED"]
             ELSE IF Includes(message, "net::ERR_CONNECTION_REFUSED")
             THEN [base EXCEPT !.status = 0, !.statusText = "CONNECTION_REFUSED"]
             ELSE IF Includes(message, "net::ERR_CONNECTION_TIMED_OUT")
             THEN [base EXCEPT !.status = 0, !.statusText = "TIMEOUT"]
             ELSE IF Includes(message, "Navigation timeout")
             THEN [base EXCEPT !.status = 0, !.statusText = "NAV_TIMEOUT"]
             ELSE base

NoResult ==
    [url |-> NullText, status |-> Null, statusText |-> NullText,
     title |-> NullText, error |-> NullText]

(***************************************************************************)
(* State.                                                                  *)
(***************************************************************************)
VARIABLES
    source,        \* main: the input source named by the arguments
    input,         \* main: what the source holds (matches, lines, the --url value)
    option,        \* main: the characters of the value of -c/--concurrency
    runtime,       \* the browser runtime: "sound", "faulty" (can fail) or "failed"
    refresh,       \* the refresh-data command
    wrapper,       \* the ref-tools command
    concurrency,   \* CONFIG.concurrency
    retries,       \* CONFIG.retries
    urls,          \* main's urls, the argument of processUrls
    backend,       \* the sites of this run: which outcomes page.goto can have
    mainpc,        \* position of main
    queue,         \* processUrls: queue
    results,       \* processUrls: results
    workers,       \* processUrls: the workers, each with its position and locals
    created,       \* number of pages browser.newPage() has created
    open,          \* the pages that are open
    report,        \* the value generateReport returned
    trace          \* history, per position in urls: navigations started,
                   \* result of each finished attempt, results pushed

vars == <<source, input, option, runtime, refresh, wrapper, concurrency, retries, urls, backend, mainpc, queue, results, workers,
          created, open, report, trace>>

NoPage == 0
NoReport == [summary |-> <<>>, byStatus |-> <<>>, results |-> <<>>]

\* A loop that runs once too often: i <= CONFIG.concurrency.
WorkerCountInclusive(n) == n + 1

\* for (let i = 0; i < CONFIG.concurrency; i++): the number of workers started.
WorkerCount(n) == n

\* One page created before the loop and used by every worker.
NewPageIdShared(n) == 1

\* browser.newPage(): a page no one else has.
NewPageId(n) == n + 1

\* A read of the first entry that leaves it in the queue.
ShiftedNot(q) == q

\* queue.shift(): what is left of the queue.
Shifted(q) == Tail(q)

\* A retry that starts at once.
RetryStepNoSleep == "checkUrlAgain"

\* What a worker does first when it retries:
\* await new Promise(r => setTimeout(r, 1000))
RetryStep == "backoff"

\* A retry that does not look at CONFIG.retries.
ShouldRetryAlways(result, r) == result.status = 0

\* A retry of everything that is not a success.
ShouldRetryUnlessOk(result, r) == ~(result.status >= 200 /\ result.status < 300) /\ r > 0

\* if (result.status === 0 && CONFIG.retries > 0)
ShouldRetry(result, r) == result.status = 0 /\ r > 0

\* A retry whose result is dropped.
RetryResultKeepsFirst(first, again) == first

\* result = await checkUrl(page, url), the retry: the value result then has.
RetryResult(first, again) == again

\* A push of the results that carry a status only.
PushedWithStatus(res, result) == IF result.status = Null THEN res ELSE Append(res, result)

\* results.push(result)
Pushed(res, result) == Append(res, result)

\* The sites of the end-to-end scenario: A answers 200, B does not
\* resolve, C answers 403.
ScenarioBackend(url) ==
    CASE url = Urls[1] -> {Response(200)}
      [] url = Urls[2] -> {Thrown(MsgDns)}
      [] OTHER -> {Response(403)}

\* The outcomes page.goto(url) can have in this run.
Outcomes(url) ==
    CASE backend = "flaky" -> FlakyBackend
      [] backend = "broken" -> BrokenBackend
      [] backend = "guarded" -> GuardedBackend
      [] backend = "scenario" -> ScenarioBackend(url)
      [] backend = "all" -> AllStatusBackend

Workers == DOMAIN workers
Targets == 1..Len(urls)

(***************************************************************************)
(* generateReport(results).                                                *)
(***************************************************************************)
\* The chain of tests without its final else: a result of no class is
\* counted in no bucket.
BucketWithoutElse(rstatus) ==
    LET status == OrElse(rstatus, 0)
    IN  IF status >= 200 /\ status < 300 THEN "ok"
        ELSE IF status >= 300 /\ status < 400 THEN "redirects"
        ELSE IF status = 403 THEN "blocked"
        ELSE IF status >= 400 /\ status < 500 THEN "clientErrors"
        ELSE IF status >= 500 THEN "serverErrors"
        ELSE "uncounted"

\* The 4xx test placed before the 403 test.
BucketClientFirst(rstatus) ==
    LET status == OrElse(rstatus, 0)
    IN  IF status >= 200 /\ status < 300 THEN "ok"
        ELSE IF status >= 300 /\ status < 400 THEN "redirects"
        ELSE IF status >= 400 /\ status < 500 THEN "clientErrors"
        ELSE IF status = 403 THEN "blocked"
        ELSE IF status >= 500 THEN "serverErrors"
        ELSE "failed"

\* The summary counter the loop body increments for a result.
Bucket(rstatus) ==
    LET status == OrElse(rstatus, 0)
    IN  IF status >= 200 /\ status < 300 THEN "ok"
        ELSE IF status >= 300 /\ status < 400 THEN "redirects"
        ELSE IF status = 403 THEN "blocked"
        ELSE IF status >= 400 /\ status < 500 THEN "clientErrors"
        ELSE IF status >= 500 THEN "serverErrors"
        ELSE "failed"

Buckets == {"ok", "redirects", "clientErrors", "serverErrors", "blocked", "failed"}

\* A key taken from the raw status, null included.
StatusKeyRaw(rstatus) == ToString(rstatus)

\* The key of byStatus a result is counted under: the property name a
\* number is converted to.
StatusKey(rstatus) == ToString(OrElse(rstatus, 0))

\* The comparator's key: (a.status || 999).
SortKey(result) == OrElse(result.status, 999)

\* Array.prototype.sort with the comparator: stable, ascending by SortKey.
RECURSIVE Sorted(_)
Sorted(res) ==
    IF Len(res) <= 1 THEN res
    ELSE LET front == Sorted(SubSeq(res, 1, Len(res) - 1))
             last == res[Len(res)]
             k == Cardinality({i \in 1..Len(front) : SortKey(front[i]) <= SortKey(last)})
         IN  SubSeq(front, 1, k) \o <<last>> \o SubSeq(front, k + 1, Len(front))

GenerateReportValue(res) ==
    LET InBucket(b) == Cardinality({i \in 1..Len(res) : Bucket(res[i].status) = b})
        UnderKey(k) == Cardinality({i \in 1..Len(res) : StatusKey(res[i].status) = k})
        keys == {StatusKey(res[i].status) : i \in 1..Len(res)}
    IN  [summary |-> [b \in Buckets \cup {"total"} |->
                         IF b = "total" THEN Len(res) ELSE InBucket(b)],
         byStatus |-> [k \in keys |-> UnderKey(k)],
         results |-> Sorted(res)]

(***************************************************************************)
(* The input sources of main.                                              *)
(***************************************************************************)
\* What content.match(urlPattern) can return for a markdown file: urls as
\* they stand in prose, some with trailing punctuation.
FileMatches == {"https://a.example", "https://a.example.", "https://b.example,"}

\* Lines of standard input.
StdinLines == {"https://a.example", "https://a.example.", "# note"}

\* url.replace(/[,.\)]+$/, ''): the trailing run of ',', '.' and ')' removed.
Replace(url) ==
    CASE url = "https://a.example." -> "https://a.example"
      [] url = "https://b.example," -> "https://b.example"
      [] OTHER -> url

\* u.trim().startsWith('http')
StartsWithHttp(u) == u \notin {"", "# note", NullText}

\* [...new Set(list)]: the first occurrence of each value, in order.
RECURSIVE SetOf(_)
SetOf(list) ==
    IF Len(list) = 0 THEN <<>>
    ELSE LET front == SetOf(SubSeq(list, 1, Len(list) - 1))
             last == list[Len(list)]
         IN  IF \E i \in 1..Len(front) : front[i] = last THEN front
             ELSE Append(front, last)

\* extractUrls(content), from the matches of urlPattern on.
ExtractUrls(matches) == SetOf([i \in 1..Len(matches) |-> Replace(matches[i])])

\* input.split('\n').filter(u => u.trim().startsWith('http'))
StdinUrls(lines) == SelectSeq(lines, StartsWithHttp)

\* The urls main hands on, by source.
UrlsOf(src, in) ==
    CASE src = "file" -> ExtractUrls(in)
      [] src = "stdin" -> StdinUrls(in)
      [] src = "url" -> <<in[1]>>

\* No value occurs twice in the list.
Deduplicated(list) == \A i, j \in 1..Len(list) : list[i] = list[j] => i = j

\* The lists of at most n elements of S.
ListsOf(S, n) == UNION {[1..m -> S] : m \in 0..n}

\* Matches whose urls are distinct and carry no punctuation: extractUrls
\* returns them as they are.  The code only compares a url with the falsy
\* values, so one list of each length stands for all.
UrlLists(n) == {SubSeq(Urls, 1, m) : m \in 0..n}

(***************************************************************************)
(* Initial states: the process has started.                                *)
(***************************************************************************)
\* The state of refresh-data where check-links runs, and at its start.
NoRefresh ==
    [pc |-> "off", urls |-> <<>>, next |-> 0, results |-> <<>>, open |-> 0,
     kind |-> NullText, navs |-> <<>>]

\* The state of ref-tools where a command is run as a script of its own.
NoWrapper == [pc |-> "off", command |-> NullText, status |-> Null]

\* No -c/--concurrency among the arguments, or one without a value: getArg
\* returns null.
NoOption == <<>>

InitWithOption(options, sources, inputs, pools, budgets, outcomes, runtimes) ==
    /\ option \in options
    /\ source \in sources
    /\ input \in inputs
    /\ concurrency \in pools
    /\ retries \in budgets
    /\ backend \in outcomes
    /\ runtime \in runtimes
    /\ refresh = NoRefresh
    /\ wrapper = NoWrapper
    /\ urls = <<>>
    /\ mainpc = "args"
    /\ queue = <<>>
    /\ results = <<>>
    /\ workers = <<>>
    /\ created = 0
    /\ open = {}
    /\ report = NoReport
    /\ trace = <<>>

\* A run without -c/--concurrency: the pool has the size CONFIG gives it.
InitWith(sources, inputs, pools, budgets, outcomes, runtimes) ==
    InitWithOption({NoOption}, sources, inputs, pools, budgets, outcomes, runtimes)

\* check-links FILE: a pool over the urls of a file, retries off or on.
Init == InitWith({"file"}, UrlLists(MaxTargets), 1..MaxConcurrency, 0..1,
                 {"flaky", "broken"}, {"sound"})

\* check-links --url URL -c 1 (urls = [args[idx + 1]]), over every status.
InitSingle == InitWith({"url"}, {<<Urls[1]>>}, {1}, 0..MaxRetries, {"all"}, {"sound"})

\* The end-to-end scenario: A, B and C in any order, two workers.
InitScenario ==
    InitWith({"file"}, {l \in [1..3 -> {Urls[1], Urls[2], Urls[3]}] : Deduplicated(l)},
             {2}, 0..1, {"scenario"}, {"sound"})

\* Lists over the sites of the scenario, whose answers are fixed: every
\* pool size, with and without a retry.
InitFixed ==
    InitWith({"file"}, ListsOf({Urls[1], Urls[2], Urls[3]}, MaxTargets),
             1..MaxConcurrency, 0..1, {"scenario"}, {"sound"})

\* Runs to their end: fewer targets than workers, as many, and more.
InitLive == InitWith({"file"}, UrlLists(MaxConcurrency), 1..MaxConcurrency, 0..1,
                     {"flaky"}, {"sound"})

\* Every input source, over raw input.
InitInput ==
    \/ InitWith({"file"}, ListsOf(FileMatches, MaxInput), 1..MaxConcurrency, 0..1,
                {"guarded"}, {"sound"})
    \/ InitWith({"stdin"}, ListsOf(StdinLines, MaxInput), 1..MaxConcurrency, 0..1,
                {"guarded"}, {"sound"})
    \/ InitWith({"url"}, {<<Urls[1]>>}, 1..MaxConcurrency, 0..1, {"guarded"}, {"sound"})

\* CONFIG.concurrency as the program text has it.
DefaultConcurrency == 5

\* Values of -c/--concurrency, character by character.
SmallOptions == {<<"1">>, <<"2">>, <<"2", "x">>, <<"0">>, <<"-", "1">>, <<"2", "1">>,
                 <<"a", "b", "c">>}
LargeOptions == {<<"2", "0">>, <<"2", "0", ".", "5">>}

\* The values --url can have: a url, the empty string, or none (undefined).
UrlValues == {<<Urls[1]>>, <<"">>, <<NullText>>}

\* check-links --url [URL] [-c VALUE].  The runs with the largest pools are
\* followed on a machine whose browser does not start.
InitArgs ==
    \/ InitWithOption(SmallOptions \cup {NoOption}, {"url"}, UrlValues,
                      {DefaultConcurrency}, {1}, {"flaky"}, {"sound"})
    \/ InitWithOption(LargeOptions, {"url"}, UrlValues,
                      {DefaultConcurrency}, {1}, {"flaky"}, {"down"})

\* A browser runtime that can fail to launch, to open or to configure a page.
InitFaulty == InitWith({"file"}, UrlLists(MaxConcurrency), 1..MaxConcurrency, 0..1,
                       {"flaky"}, {"faulty"})

(***************************************************************************)
(* main.                                                                   *)
(***************************************************************************)
\* The value of a decimal digit, -1 for any other character.
DigitOf(c) ==
    CASE c = "0" -> 0 [] c = "1" -> 1 [] c = "2" -> 2 [] c = "3" -> 3 [] c = "4" -> 4
      [] c = "5" -> 5 [] c = "6" -> 6 [] c = "7" -> 7 [] c = "8" -> 8 [] c = "9" -> 9
      [] OTHER -> -1

\* parseInt(text, 10): an optional sign, then the longest run of digits;
\* NaN if there is no digit there.  What follows the digits is ignored.
ParseInt(chars) ==
    LET negative == Len(chars) > 0 /\ chars[1] = "-"
        body == IF negative THEN Tail(chars) ELSE chars
        run == CHOOSE k \in 0..Len(body) :
                   /\ \A i \in 1..k : DigitOf(body[i]) >= 0
                   /\ k < Len(body) => DigitOf(body[k + 1]) < 0
        Value[i \in 0..run] == IF i = 0 THEN 0 ELSE 10 * Value[i - 1] + DigitOf(body[i])
    IN  IF run = 0 THEN [nan |-> TRUE, value |-> 0]
        ELSE [nan |-> FALSE, value |-> IF negative THEN 0 - Value[run] ELSE Value[run]]

\* n > 0 && n <= 20, false for NaN
InRange(n) == ~n.nan /\ n.value > 0 /\ n.value <= 20

\* The argument parsing of main: the -c/--concurrency option, if given,
\* sets CONFIG.concurrency or ends the process; then the input source
\* fills urls.
ParseArgs ==
    /\ mainpc = "args"
    /\ IF option # NoOption /\ ~InRange(ParseInt(option))
       THEN /\ mainpc' = "exit1"
            /\ UNCHANGED <<concurrency, urls, trace>>
       ELSE /\ concurrency' = IF option # NoOption THEN ParseInt(option).value
                              ELSE concurrency
            /\ urls' = UrlsOf(source, input)
            /\ trace' = [t \in 1..Len(urls') |->
                             [navs |-> 0, sleeps |-> 0, outcomes |-> <<>>, pushed |-> 0]]
            /\ mainpc' = "main"
    /\ UNCHANGED <<source, input, option, runtime, refresh, wrapper, retries, backend, queue,
                   results, workers, created, open, report>>

\* A test that never finds the list empty.
NoUrlsNever(list) == FALSE

\* urls.length === 0
NoUrls(list) == Len(list) = 0

\* if (urls.length === 0) process.exit(1), else puppeteer.launch(...)
Main ==
    /\ mainpc = "main"
    /\ mainpc' = IF NoUrls(urls) THEN "exit1" ELSE "launching"
    /\ UNCHANGED <<source, input, option, refresh, wrapper, concurrency, retries, urls, backend, queue, results, workers,
                   created, open, report, trace, runtime>>

\* Whether a call into the browser runtime succeeds.
SetupOutcomes ==
    CASE runtime = "sound" -> {TRUE}
      [] runtime = "down" -> {FALSE}
      [] OTHER -> {TRUE, FALSE}

\* A queue that keeps one entry per url.
QueueOfDistinct(list) == SetOf(list)

\* const queue = [...urls]
QueueOf(list) == list

\* puppeteer.launch(...) settles.  If the browser is up,
\* processUrls(urls, browser) runs up to Promise.all: every worker has
\* called browser.newPage().  If not, main rejects.
ProcessUrls ==
    /\ mainpc = "launching"
    /\ \E up \in SetupOutcomes :
       IF up
       THEN /\ mainpc' = "processing"
            /\ results' = <<>>
            /\ queue' = QueueOf(urls)
            /\ workers' = [w \in 1..WorkerCount(concurrency) |->
                              [pc |-> "newPage", page |-> NoPage, url |-> NullText,
                               target |-> 0, result |-> NoResult]]
            /\ UNCHANGED runtime
       ELSE /\ mainpc' = "fatal"
            /\ runtime' = "failed"
            /\ UNCHANGED <<results, queue, workers>>
    /\ UNCHANGED <<source, input, option, refresh, wrapper, concurrency, retries, urls, backend, created, open, report, trace>>

(***************************************************************************)
(* A worker of processUrls.                                                *)
(***************************************************************************)
\* The process is alive and processUrls has been called.
Running == mainpc \in {"processing", "aborting"}

IsFalsy(url) == url = "" \/ url = NullText

\* while (queue.length > 0) { url = queue.shift(); if (!url) break;
\*   ... checkUrl(page, url) -> page.goto } ... page.close(),
\* entered by worker w with results res and history tr.
Loop(w, res, tr) ==
    /\ results' = res
    /\ IF Len(queue) > 0
       THEN LET url == Head(queue)
                target == Len(urls) - Len(queue) + 1
            IN  /\ queue' = Shifted(queue)
                /\ IF IsFalsy(url)
                   THEN /\ workers' = [workers EXCEPT ![w].pc = "closing"]
                        /\ trace' = tr
                   ELSE /\ workers' = [workers EXCEPT ![w].pc = "checkUrl",
                                                      ![w].url = url,
                                                      ![w].target = target,
                                                      ![w].result = NoResult]
                        /\ trace' = [tr EXCEPT ![target].navs = @ + 1]
       ELSE /\ queue' = queue
            /\ workers' = [workers EXCEPT ![w].pc = "closing"]
            /\ trace' = tr

\* A worker whose failure is swallowed.
RejectedQuietly(worker) == [worker EXCEPT !.pc = "done"]

\* An await of the worker throws outside any try: its promise is rejected.
Rejected(worker) == [worker EXCEPT !.pc = "rejected"]

\* await Promise.all(workers) in processUrls, inside main's try: the first
\* rejection sends main to its finally block.
OnSettle(ws, pc) ==
    IF pc = "processing" /\ \E w \in DOMAIN ws : ws[w].pc = "rejected"
    THEN "aborting" ELSE pc

\* await browser.newPage() settles.
NewPage(w) ==
    /\ Running
    /\ workers[w].pc = "newPage"
    /\ \E ok \in SetupOutcomes :
       IF ok
       THEN /\ workers' = [workers EXCEPT ![w].pc = "configure",
                                          ![w].page = NewPageId(created)]
            /\ created' = created + 1
            /\ open' = open \cup {NewPageId(created)}
            /\ UNCHANGED <<mainpc, runtime>>
       ELSE /\ workers' = [workers EXCEPT ![w] = Rejected(@)]
            /\ mainpc' = OnSettle(workers', mainpc)
            /\ runtime' = "failed"
            /\ UNCHANGED <<created, open>>
    /\ UNCHANGED <<source, input, option, refresh, wrapper, concurrency, retries, urls, backend, queue, results,
                   report, trace>>

\* setUserAgent, setViewport, setRequestInterception on the worker's own
\* page settle; if all are done the worker enters its loop.
ConfigurePage(w) ==
    /\ Running
    /\ workers[w].pc = "configure"
    /\ \E ok \in SetupOutcomes :
       IF ok
       THEN /\ Loop(w, results, trace)
            /\ UNCHANGED <<mainpc, runtime>>
       ELSE /\ workers' = [workers EXCEPT ![w] = Rejected(@)]
            /\ mainpc' = OnSettle(workers', mainpc)
            /\ runtime' = "failed"
            /\ UNCHANGED <<queue, results, trace>>
    /\ UNCHANGED <<source, input, option, refresh, wrapper, concurrency, retries, urls, backend, created, open, report>>

\* The first checkUrl returns: retry, or push and go round the loop.
CheckUrlReturns(w) ==
    /\ Running
    /\ workers[w].pc = "checkUrl"
    /\ \E outcome \in Outcomes(workers[w].url) :
       LET result == CheckUrl(workers[w].url, outcome)
           target == workers[w].target
           tr == [trace EXCEPT ![target].outcomes = Append(@, result)]
       IN  IF ShouldRetry(result, retries)
           THEN /\ workers' = [workers EXCEPT ![w].pc = RetryStep, ![w].result = result]
                /\ trace' = tr
                /\ UNCHANGED <<queue, results>>
           ELSE Loop(w, Pushed(results, result), [tr EXCEPT ![target].pushed = @ + 1])
    /\ UNCHANGED <<source, input, option, refresh, wrapper, concurrency, retries, urls, backend, mainpc, created, open, report,
                   runtime>>

\* setTimeout(r, 1000) fires: checkUrl(page, url) is called again.
Backoff(w) ==
    /\ Running
    /\ workers[w].pc = "backoff"
    /\ workers' = [workers EXCEPT ![w].pc = "checkUrlAgain"]
    /\ trace' = [trace EXCEPT ![workers[w].target].navs = @ + 1,
                              ![workers[w].target].sleeps = @ + 1]
    /\ UNCHANGED <<source, input, option, refresh, wrapper, concurrency, retries, urls, backend, mainpc, queue, results,
                   created, open, report, runtime>>

\* The second checkUrl returns: push and go round the loop.
CheckUrlAgainReturns(w) ==
    /\ Running
    /\ workers[w].pc = "checkUrlAgain"
    /\ \E outcome \in Outcomes(workers[w].url) :
       LET result == RetryResult(workers[w].result, CheckUrl(workers[w].url, outcome))
           target == workers[w].target
       IN  Loop(w, Pushed(results, result),
                [trace EXCEPT ![target].outcomes =
                                  Append(@, CheckUrl(workers[w].url, outcome)),
                              ![target].pushed = @ + 1])
    /\ UNCHANGED <<source, input, option, refresh, wrapper, concurrency, retries, urls, backend, mainpc, created, open, report,
                   runtime>>

\* await page.close() resolves: the worker's promise is fulfilled.
PageClosed(w) ==
    /\ Running
    /\ workers[w].pc = "closing"
    /\ workers' = [workers EXCEPT ![w].pc = "done"]
    /\ open' = open \ {workers[w].page}
    /\ UNCHANGED <<source, input, option, refresh, wrapper, concurrency, retries, urls, backend, mainpc, queue, results,
                   created, report, trace, runtime>>

(***************************************************************************)
(* main, after processUrls.                                                *)
(***************************************************************************)
\* A combinator that is fulfilled by the first worker to finish.
PromiseAny == \E w \in Workers : workers[w].pc = "done"

\* A promise that is never settled.
PromiseNever == FALSE

\* Promise.all(workers) is fulfilled: every worker's promise is.
PromiseAll == \A w \in Workers : workers[w].pc = "done"

\* Promise.all(workers) is fulfilled; report = generateReport(results),
\* which sorts results in place; the report is printed.
GenerateReport ==
    /\ mainpc = "processing"
    /\ PromiseAll
    /\ report' = GenerateReportValue(results)
    /\ results' = Sorted(results)
    /\ mainpc' = "reported"
    /\ UNCHANGED <<source, input, option, refresh, wrapper, concurrency, retries, urls, backend, queue, workers, created,
                   open, trace, runtime>>

\* finally { await browser.close() }, after the report or after the error;
\* after the error main().catch then ends the process with exit code 1.
CloseBrowser ==
    /\ mainpc \in {"reported", "aborting"}
    /\ mainpc' = IF mainpc = "reported" THEN "closed" ELSE "fatal"
    /\ open' = {}
    /\ UNCHANGED <<source, input, option, refresh, wrapper, concurrency, retries, urls, backend, queue, results, workers,
                   created, report, trace, runtime>>

Next ==
    \/ ParseArgs
    \/ Main
    \/ ProcessUrls
    \/ \E w \in Workers : NewPage(w)
    \/ \E w \in Workers : ConfigurePage(w)
    \/ \E w \in Workers : CheckUrlReturns(w)
    \/ \E w \in Workers : Backoff(w)
    \/ \E w \in Workers : CheckUrlAgainReturns(w)
    \/ \E w \in Workers : PageClosed(w)
    \/ GenerateReport
    \/ CloseBrowser

Spec == Init /\ [][Next]_vars
SpecSingle == InitSingle /\ [][Next]_vars
SpecScenario == InitScenario /\ [][Next]_vars
SpecFixed == InitFixed /\ [][Next]_vars
SpecInput == InitInput /\ [][Next]_vars
SpecFaulty == InitFaulty /\ [][Next]_vars
SpecArgs == InitArgs /\ [][Next]_vars

\* Fair scheduling: the event loop runs a continuation that is ready, and
\* a call into the browser (launch, newPage, goto, close) and a timer
\* settle, so as long as a step is possible a step is taken.
SpecLive == InitLive /\ [][Next]_vars /\ WF_vars(Next)

\* Fair scheduling on a browser runtime that can fail.
SpecLiveFaulty == InitFaulty /\ [][Next]_vars /\ WF_vars(Next)

(***************************************************************************)
(* refresh-data: live data extracted from the urls of REFERENCES.md, one   *)
(* url after the other.                                                    *)
(***************************************************************************)
InstagramUrl == "https://www.instagram.com/nasa/"
StatistaUrl == "https://www.statista.com/outlook/influencers"
SharedUrl == "https://www.instagram.com/l/?u=statista.com/outlook"
MarketUrl == "https://techcrunch.com/creator-economy"

\* The urls the patterns of getExtractableUrls can match in a file.
ReferenceUrls == {InstagramUrl, StatistaUrl, SharedUrl, MarketUrl}

\* The values --url can have.
UrlArguments == ReferenceUrls \cup {Urls[1]}

\* String.prototype.includes on the urls above.
UrlIncludes(url, domain) ==
    CASE url = InstagramUrl -> domain = "instagram.com"
      [] url = StatistaUrl -> domain = "statista.com"
      [] url = SharedUrl -> domain \in {"instagram.com", "statista.com"}
      [] OTHER -> FALSE

EXTRACTORS == {"instagram", "statista", "generic"}

\* The tests of getExtractor in the other order.
GetExtractorStatistaFirst(url) ==
    IF UrlIncludes(url, "statista.com") THEN "statista"
    ELSE IF UrlIncludes(url, "instagram.com") THEN "instagram"
    ELSE "generic"

\* getExtractor(url)
GetExtractor(url) ==
    IF UrlIncludes(url, "instagram.com") THEN "instagram"
    ELSE IF UrlIncludes(url, "statista.com") THEN "statista"
    ELSE "generic"

\* The type of the pattern of getExtractableUrls that matches a url.
PatternType(url) ==
    CASE url \in {InstagramUrl, SharedUrl} -> "instagram"
      [] url = StatistaUrl -> "statista"
      [] OTHER -> "market"

\* getExtractableUrls(content), from the matches on: the matches of the
\* instagram pattern, then of the statista pattern, then of the market
\* pattern, one entry per url.
GetExtractableUrls(matches) ==
    LET OfType(type) ==
            LET Matches(url) == PatternType(url) = type
            IN  SelectSeq(matches, Matches)
        ordered == SetOf(OfType("instagram") \o OfType("statista") \o OfType("market"))
    IN  [i \in 1..Len(ordered) |-> [url |-> ordered[i], type |-> PatternType(ordered[i])]]

\* The urls main works on, by argument.
RefreshUrlsOf(src, in) ==
    LET IsInstagram(u) == u.type = "instagram"
    IN  CASE src = "url" -> <<[url |-> in[1], type |-> GetExtractor(in[1])]>>
          [] src = "instagram" -> SelectSeq(GetExtractableUrls(in), IsInstagram)
          [] src = "all" -> GetExtractableUrls(in)

MsgEvaluate == "Execution context was destroyed"

\* What an extractor can do: page.goto resolves with a response of some
\* status or throws, and then page.evaluate returns the data or throws.
ExtractorOutcomes ==
    {[nav |-> 200, evaluated |-> TRUE], [nav |-> 200, evaluated |-> FALSE],
     [nav |-> 301, evaluated |-> TRUE], [nav |-> 404, evaluated |-> TRUE],
     [nav |-> 500, evaluated |-> TRUE], [nav |-> Null, evaluated |-> FALSE]}

\* The value of extractData(browser, url) for an outcome of the extractor:
\* the extractor's data, or what the catch block makes of its error.
ExtractData(url, extractorName, outcome) ==
    IF outcome.nav # Null /\ outcome.evaluated
    THEN [url |-> url, type |-> extractorName, success |-> TRUE, error |-> NullText]
    ELSE [url |-> url, type |-> extractorName, success |-> FALSE,
          error |-> IF outcome.nav = Null THEN MsgNavTimeout ELSE MsgEvaluate]

\* A list that takes the results of the extractions that succeeded only.
CollectedOnSuccess(res, result) == IF result.success THEN Append(res, result) ELSE res

\* results.push(result) in main
Collected(res, result) == Append(res, result)

InitRefreshWith(sources, inputs, runtimes) ==
    /\ source \in sources
    /\ input \in inputs
    /\ option = NoOption
    /\ concurrency = 1
    /\ retries = 0
    /\ backend = "flaky"
    /\ runtime \in runtimes
    /\ refresh = [NoRefresh EXCEPT !.pc = "args"]
    /\ wrapper = NoWrapper
    /\ urls = <<>>
    /\ mainpc = "off"
    /\ queue = <<>>
    /\ results = <<>>
    /\ workers = <<>>
    /\ created = 0
    /\ open = {}
    /\ report = NoReport
    /\ trace = <<>>

\* refresh-data, refresh-data --instagram, refresh-data --url URL
InitRefresh ==
    \/ InitRefreshWith({"all", "instagram"}, ListsOf(ReferenceUrls, MaxInput), {"sound"})
    \/ InitRefreshWith({"url"}, {<<u>> : u \in UrlArguments}, {"sound"})

\* refresh-data on a browser runtime that can fail to launch and to open
\* or close a page.
InitRefreshFaulty ==
    InitRefreshWith({"all"}, ListsOf({InstagramUrl, MarketUrl}, MaxInput), {"faulty"})

checkLinks == <<source, input, option, runtime, wrapper, concurrency, retries, urls, backend, mainpc, queue,
                results, workers, created, open, report, trace>>

\* The argument parsing of main fills urls.
RefreshParseArgs ==
    /\ refresh.pc = "args"
    /\ refresh' = [refresh EXCEPT !.pc = "main", !.urls = RefreshUrlsOf(source, input)]
    /\ UNCHANGED checkLinks

\* if (urls.length === 0) process.exit(1), else puppeteer.launch(...)
RefreshMain ==
    /\ refresh.pc = "main"
    /\ refresh' = [refresh EXCEPT !.pc = IF NoUrls(refresh.urls) THEN "exit1" ELSE "launching"]
    /\ UNCHANGED checkLinks

\* puppeteer.launch(...) settles: the loop over urls is entered, or main
\* rejects.
RefreshLaunched ==
    /\ refresh.pc = "launching"
    /\ \E up \in SetupOutcomes :
          refresh' = IF up THEN [refresh EXCEPT !.pc = "extractData", !.next = 1]
                     ELSE [refresh EXCEPT !.pc = "fatal"]
    /\ UNCHANGED checkLinks

\* extractData(browser, url) up to the call of the extractor: the page is
\* open and configured and the extractor is chosen; or browser.newPage()
\* rejects, and with it extractData, which sends main to its finally block.
ExtractDataCalled ==
    /\ refresh.pc = "extractData"
    /\ \E ok \in SetupOutcomes :
          refresh' = IF ok
                     THEN [refresh EXCEPT !.pc = "extractor", !.open = @ + 1,
                              !.kind = GetExtractor(refresh.urls[refresh.next].url)]
                     ELSE [refresh EXCEPT !.pc = "aborting"]
    /\ UNCHANGED checkLinks

\* A finally block that leaves the page as it is.
PageCloseSkipped(pages) == pages

\* finally { await page.close() }: the number of open pages after it.
PageClose(pages) == pages - 1

\* The extractor settles and page.close() in finally settles.  If the page
\* is closed extractData returns, main pushes the result and waits for the
\* rate limit; if not, extractData rejects with the error of page.close().
ExtractorSettles ==
    /\ refresh.pc = "extractor"
    /\ \E outcome \in ExtractorOutcomes, closed \in SetupOutcomes :
          refresh' = IF closed
                     THEN [refresh EXCEPT
                              !.pc = "rateLimit", !.open = PageClose(@), !.kind = NullText,
                              !.navs = Append(@, outcome.nav),
                              !.results = Collected(@,
                                  ExtractData(refresh.urls[refresh.next].url,
                                              refresh.kind, outcome))]
                     ELSE [refresh EXCEPT !.pc = "aborting", !.kind = NullText,
                                          !.navs = Append(@, outcome.nav)]
    /\ UNCHANGED checkLinks

\* setTimeout(r, 1000) fires: the next url, or the results are printed.
RateLimit ==
    /\ refresh.pc = "rateLimit"
    /\ refresh' = IF refresh.next < Len(refresh.urls)
                  THEN [refresh EXCEPT !.pc = "extractData", !.next = @ + 1]
                  ELSE [refresh EXCEPT !.pc = "printed"]
    /\ UNCHANGED checkLinks

\* finally { await browser.close() }, after the results are printed or
\* after the error; after the error main().catch then ends the process
\* with exit code 1.
RefreshCloseBrowser ==
    /\ refresh.pc \in {"printed", "aborting"}
    /\ refresh' = [refresh EXCEPT !.pc = IF refresh.pc = "printed" THEN "closed" ELSE "fatal",
                                  !.open = 0]
    /\ UNCHANGED checkLinks

NextRefresh ==
    \/ RefreshParseArgs
    \/ RefreshMain
    \/ RefreshLaunched
    \/ ExtractDataCalled
    \/ ExtractorSettles
    \/ RateLimit
    \/ RefreshCloseBrowser

SpecRefresh == InitRefresh /\ [][NextRefresh]_vars
SpecRefreshFaulty == InitRefreshFaulty /\ [][NextRefresh]_vars

\* Either command, on any of its inputs.
InitCommands == InitInput \/ InitRefresh
NextCommands == Next \/ NextRefresh
SpecCommands == InitCommands /\ [][NextCommands]_vars

(***************************************************************************)
(* ref-tools: the wrapper that runs a command as a child process.          *)
(***************************************************************************)
\* The first argument of ref-tools: none, a flag, a command, another word.
CommandArguments ==
    {NullText, "--help", "-h", "--version", "check-links", "refresh-data", "validate"}

\* commands[command]: the script of a command, undefined for another word.
Script(command) ==
    CASE command = "check-links" -> "check-links.js"
      [] command = "refresh-data" -> "refresh-data.js"
      [] OTHER -> NullText

\* The position of the child process: that of the main of its script.
ChildPc == IF wrapper.command = "check-links" THEN mainpc ELSE refresh.pc

\* The child process has ended: by process.exit(1), by a rejection that
\* main().catch turns into process.exit(1), by running to its end, or by a
\* signal.
ChildEnded == ChildPc \in {"exit1", "fatal", "closed", "killed"}

\* The code the 'exit' event of the child carries: the exit code of the
\* process, null if a signal ended it.
ChildCode ==
    CASE ChildPc = "killed" -> Null
      [] ChildPc = "closed" -> 0
      [] OTHER -> 1

\* process.exit(code || 0)
ExitStatus(code) == OrElse(code, 0)

\* ref-tools with its arguments, the rest of which go to the command: the
\* commands run on a browser runtime that can fail.
InitWrapper ==
    /\ wrapper \in {[pc |-> "start", command |-> c, status |-> Null] : c \in CommandArguments}
    /\ source = IF wrapper.command = "refresh-data" THEN "all" ELSE "file"
    /\ input \in CASE wrapper.command = "check-links" -> UrlLists(MaxConcurrency)
                   [] wrapper.command = "refresh-data" ->
                          ListsOf({InstagramUrl, MarketUrl}, MaxInput)
                   [] OTHER -> {<<>>}
    /\ option = NoOption
    /\ concurrency \in IF wrapper.command = "check-links" THEN 1..MaxConcurrency ELSE {1}
    /\ retries \in IF wrapper.command = "check-links" THEN 0..1 ELSE {0}
    /\ backend = "flaky"
    /\ runtime = IF Script(wrapper.command) = NullText THEN "sound" ELSE "faulty"
    /\ refresh = NoRefresh
    /\ urls = <<>>
    /\ mainpc = "off"
    /\ queue = <<>>
    /\ results = <<>>
    /\ workers = <<>>
    /\ created = 0
    /\ open = {}
    /\ report = NoReport
    /\ trace = <<>>

\* The top of the script: help and version end with 0, an unknown command
\* with 1; for a command of the table node is spawned on its script.
Dispatch ==
    /\ wrapper.pc = "start"
    /\ IF wrapper.command \in {NullText, "--help", "-h", "--version"}
       THEN /\ wrapper' = [wrapper EXCEPT !.pc = "exited", !.status = 0]
            /\ UNCHANGED <<mainpc, refresh>>
       ELSE IF Script(wrapper.command) = NullText
       THEN /\ wrapper' = [wrapper EXCEPT !.pc = "exited", !.status = 1]
            /\ UNCHANGED <<mainpc, refresh>>
       ELSE /\ wrapper' = [wrapper EXCEPT !.pc = "spawned"]
            /\ mainpc' = IF wrapper.command = "check-links" THEN "args" ELSE mainpc
            /\ refresh' = IF wrapper.command = "refresh-data"
                          THEN [refresh EXCEPT !.pc = "args"]
                          ELSE refresh
    /\ UNCHANGED <<source, input, option, runtime, concurrency, retries, urls, backend, queue,
                   results, workers, created, open, report, trace>>

\* A signal ends the child while it runs.
ChildKilled ==
    /\ wrapper.pc = "spawned"
    /\ ~ChildEnded
    /\ mainpc' = IF wrapper.command = "check-links" THEN "killed" ELSE mainpc
    /\ refresh' = IF wrapper.command = "refresh-data"
                  THEN [refresh EXCEPT !.pc = "killed"]
                  ELSE refresh
    /\ UNCHANGED <<source, input, option, runtime, wrapper, concurrency, retries, urls, backend,
                   queue, results, workers, created, open, report, trace>>

\* child.on('exit', (code) => { process.exit(code || 0); })
ChildExit ==
    /\ wrapper.pc = "spawned"
    /\ ChildEnded
    /\ wrapper' = [wrapper EXCEPT !.pc = "exited", !.status = ExitStatus(ChildCode)]
    /\ UNCHANGED <<source, input, option, runtime, refresh, concurrency, retries, urls, backend,
                   mainpc, queue, results, workers, created, open, report, trace>>

NextWrapper ==
    \/ Dispatch
    \/ ChildKilled
    \/ ChildExit
    \/ Next
    \/ NextRefresh

SpecWrapper == InitWrapper /\ [][NextWrapper]_vars

(***************************************************************************)
(* Properties.                                                             *)
(***************************************************************************)
Reported == mainpc \in {"reported", "closed"}

\* The workers whose page.goto is in progress.
Navigating == {w \in Workers : workers[w].pc \in {"checkUrl", "checkUrlAgain"}}

\* The classes of outcome the retry policy names: zero or unknown status
\* and the failures DNS, connection refused, timeout, navigation timeout
\* all carry status 0; an error of no known signature carries none.
Retryable(result) == result.status = 0 \/ result.status = Null

\* The bucket the classifier table gives a status.
TableBucket(status) ==
    CASE status \in 200..299 -> "ok"
      [] status \in 300..399 -> "redirects"
      [] status = 403 -> "blocked"
      [] status \in 400..499 /\ status # 403 -> "clientErrors"
      [] status \in 500..599 -> "serverErrors"
      [] OTHER -> "failed"

\* The entries of the results that carry the url of target t.
EntriesOf(t) == {i \in 1..Len(results) : results[i].url = urls[t]}

\* C1: for a non-empty deduplicated list of M targets, the report has
\* exactly M results, one for each target: none lost, none twice.
C1_OneResultPerTarget ==
    (Reported /\ Len(urls) > 0 /\ Deduplicated(urls)) =>
        /\ Len(report.results) = Len(urls)
        /\ report.summary["total"] = Len(urls)
        /\ \A t \in Targets :
              Cardinality({i \in 1..Len(report.results) :
                              report.results[i].url = urls[t]}) = 1

C1_Witness ==
    /\ Reported
    /\ Len(urls) = MaxTargets
    /\ concurrency = MaxConcurrency
    /\ Len(report.results) = MaxTargets

\* C2: with more targets than workers, the number of navigations in
\* progress at the same time never exceeds the pool size.
C2_ConcurrencyBound ==
    Len(urls) > concurrency => Cardinality(Navigating) <= concurrency

C2_Witness ==
    /\ Len(urls) > concurrency
    /\ concurrency = MaxConcurrency
    /\ Cardinality(Navigating) = concurrency

\* C3: a page is used by at most one worker: no page has two navigations
\* in progress, and no two workers ever navigate with the same page.
C3_PageExclusive ==
    \A p \in 1..created :
        /\ Cardinality({w \in Navigating : workers[w].page = p}) <= 1
        /\ Cardinality({w \in Workers : workers[w].page = p /\ workers[w].target # 0}) <= 1

C3_Witness ==
    \E w1, w2 \in Navigating :
        w1 # w2 /\ workers[w1].page # NoPage /\ workers[w2].page # NoPage

\* C4: a target is navigated to at most 1 + retries times.
C4_AttemptBound == \A t \in Targets : trace[t].navs <= 1 + retries

C4_Witness ==
    /\ Reported
    /\ retries = 1
    /\ \E t \in Targets : trace[t].navs = 2

\* C5: with retries on, a target whose first attempt ends in a retryable
\* class (an error of no known signature included) is attempted again
\* before its outcome is recorded.
C5_RetryableIsRetried ==
    \A t \in Targets :
        (/\ retries > 0
         /\ trace[t].pushed > 0
         /\ Retryable(trace[t].outcomes[1])) => trace[t].navs >= 2

\* C6: a target whose every attempt ends in a retryable class is attempted
\* exactly 1 + retries times, and its one outcome is in the failed bucket.
C6_RetryExhaustion ==
    \A t \in Targets :
        (/\ trace[t].pushed > 0
         /\ \A k \in 1..Len(trace[t].outcomes) : Retryable(trace[t].outcomes[k])) =>
            /\ trace[t].navs = 1 + retries
            /\ trace[t].pushed = 1
            /\ \A i \in EntriesOf(t) : Bucket(results[i].status) = "failed"

\* C7: with retries = 1, a target whose first attempt ended in a retryable
\* class and whose second attempt returned a 2xx status has one outcome in
\* the results, the second attempt's, and the report counts it in ok and
\* not in failed.
C7_RetrySuccess ==
    \A t \in Targets :
        (/\ retries = 1
         /\ Deduplicated(urls)
         /\ Len(trace[t].outcomes) = 2
         /\ Retryable(trace[t].outcomes[1])
         /\ trace[t].outcomes[2].status \in 200..299) =>
            /\ trace[t].navs = 2
            /\ trace[t].pushed = 1
            /\ Cardinality(EntriesOf(t)) = 1
            /\ \A i \in EntriesOf(t) : results[i] = trace[t].outcomes[2]
            /\ Reported =>
                  LET ok == {i \in 1..Len(results) : results[i].status \in 200..299}
                  IN  /\ report.summary["ok"] = Cardinality(ok)
                      /\ report.summary["failed"] <= Len(results) - Cardinality(ok)

C7_Witness ==
    /\ Reported
    /\ retries = 1
    /\ \E t \in Targets :
          /\ Len(trace[t].outcomes) = 2
          /\ trace[t].outcomes[1].statusText = "NAV_TIMEOUT"
          /\ trace[t].outcomes[2].status = 200
          /\ report.summary["ok"] = 1

\* C8: a target whose attempt returned a non-zero HTTP status is navigated
\* to exactly once and its outcome is pushed exactly once.
C8_NoRetryOnStatus ==
    \A t \in Targets :
        (/\ Deduplicated(urls)
         /\ Len(trace[t].outcomes) >= 1
         /\ ~Retryable(trace[t].outcomes[1])) =>
            /\ trace[t].navs = 1
            /\ Len(trace[t].outcomes) = 1
            /\ trace[t].pushed = 1
            /\ Cardinality(EntriesOf(t)) = 1
            /\ \A i \in EntriesOf(t) : results[i] = trace[t].outcomes[1]

C8_Witness ==
    /\ Reported
    /\ retries > 0
    /\ \E t \in Targets :
          /\ Len(trace[t].outcomes) = 1
          /\ trace[t].outcomes[1].status = 500
          /\ trace[t].navs = 1
          /\ trace[t].pushed = 1

\* C9: when every result has a status in 200..599, each summary bucket
\* counts the results the classifier table puts in it.
C9_BucketsFollowTable ==
    (Reported /\ \A i \in 1..Len(results) : results[i].status \in 200..599) =>
        \A b \in Buckets :
            report.summary[b] =
                Cardinality({i \in 1..Len(results) : TableBucket(results[i].status) = b})

C9_Witness ==
    /\ Reported
    /\ Len(results) > 0
    /\ results[1].status = 403
    /\ report.summary["blocked"] = 1

\* C10: a result with no status, status 0 or a status outside 200..599 is
\* counted in failed and in no other bucket.
C10_OutsideRangeIsFailed ==
    (Reported /\ \A i \in 1..Len(results) : results[i].status \notin 200..599) =>
        \A b \in Buckets :
            report.summary[b] = IF b = "failed" THEN Len(results) ELSE 0



\* C11 as stated: in the scenario A -> 200, B -> DNS failure, C -> 403 with
\* two workers and no retries, the summary of the report is exactly the six
\* bucket counts ok 1, blocked 1, failed 1 and 0 for the rest, byStatus is
\* exactly {"200": 1, "403": 1, "0": 1} and there are 3 results.
C11_SummarySixKeys ==
    (Reported /\ retries = 0) =>
        /\ report.summary = [ok |-> 1, blocked |-> 1, failed |-> 1, redirects |-> 0,
                             clientErrors |-> 0, serverErrors |-> 0]
        /\ report.byStatus = [k \in {"200", "403", "0"} |-> 1]
        /\ Len(report.results) = 3

\* C11, amended: in the scenario A -> 200, B -> DNS failure, C -> 403 with
\* two workers and no retries, in every interleaving the summary of the
\* report is exactly total 3, ok 1, blocked 1, failed 1 and 0 for redirects,
\* clientErrors and serverErrors, byStatus is exactly
\* {"200": 1, "403": 1, "0": 1} and there are 3 results.
C11_ScenarioReport ==
    (Reported /\ retries = 0) =>
        /\ report.summary = [total |-> 3, ok |-> 1, blocked |-> 1, failed |-> 1,
                             redirects |-> 0, clientErrors |-> 0, serverErrors |-> 0]
        /\ report.byStatus = [k \in {"200", "403", "0"} |-> 1]
        /\ Len(report.results) = 3

\* The scenario has been reported, with the targets handed over as A, B, C:
\* the report lists A's 200, C's 403 and then B's DNS failure.
C11_Witness ==
    /\ Reported /\ retries = 0 /\ concurrency = 2
    /\ urls = <<Urls[1], Urls[2], Urls[3]>>
    /\ Len(report.results) = 3
    /\ report.results[1].status = 200 /\ report.results[1].url = Urls[1]
    /\ report.results[2].status = 403 /\ report.results[2].url = Urls[3]
    /\ report.results[3].status = 0 /\ report.results[3].statusText = "DNS_FAILED"
    /\ report.results[3].error = MsgDns

\* C12: there is no deduplication inside processUrls: a url that stands
\* twice in the list handed to processUrls is navigated to as two targets
\* and yields two outcome records; in general the report holds as many
\* records of a url as the list holds entries of it, and every entry has
\* been navigated to and recorded once.
C12_NoDedupMidRun ==
    Reported =>
        /\ \A t \in Targets : trace[t].navs >= 1 /\ trace[t].pushed = 1
        /\ \A t \in Targets :
              Cardinality(EntriesOf(t)) = Cardinality({u \in Targets : urls[u] = urls[t]})

\* Standard input named one url twice; both entries were navigated to and
\* the report holds two records of the url.
C12_Witness ==
    /\ Reported
    /\ Len(urls) = 2 /\ urls[1] = urls[2]
    /\ trace[1].navs >= 1 /\ trace[2].navs >= 1
    /\ trace[1].pushed = 1 /\ trace[2].pushed = 1
    /\ Cardinality(EntriesOf(1)) = 2

\* C13: for every input source (markdown file, --stdin, --url) the queue
\* holds no two urls that are equal after normalization (trailing ',', '.'
\* and ')' trimmed): the input is normalized and deduplicated.
C13_NoEqualNormalizedUrls ==
    \A i, j \in 1..Len(queue) : Replace(queue[i]) = Replace(queue[j]) => i = j

\* C14: the results of the report are in non-decreasing order of status,
\* and a result without a status (null or 0) comes after every result with
\* one, for every status a navigation can return.
C14_NoStatusLast ==
    Reported =>
        \A i, j \in 1..Len(report.results) :
            LET a == report.results[i]
                b == report.results[j]
            IN  i < j =>
                    /\ (~Retryable(a) /\ ~Retryable(b)) => a.status <= b.status
                    /\ Retryable(a) => Retryable(b)

\* The sum of the values of a function with a finite domain.
RECURSIVE SumOf(_)
SumOf(f) ==
    IF DOMAIN f = {} THEN 0
    ELSE LET k == CHOOSE x \in DOMAIN f : TRUE
         IN  f[k] + SumOf([x \in DOMAIN f \ {k} |-> f[x]])

\* The histogram key the claim gives a status: "0" for null and for 0.
HistogramKey(status) == IF Retryable([status |-> status]) THEN "0" ELSE ToString(status)

\* C15: byStatus maps each raw status to the number of results with it,
\* null and 0 counted under "0"; no key has the count 0 and the counts add
\* up to the number of results.
C15_ByStatusCounts ==
    Reported =>
        LET rs == report.results
            by == report.byStatus
        IN  /\ DOMAIN by = {HistogramKey(rs[i].status) : i \in 1..Len(rs)}
            /\ \A k \in DOMAIN by :
                  /\ by[k] = Cardinality({i \in 1..Len(rs) : HistogramKey(rs[i].status) = k})
                  /\ by[k] > 0
            /\ SumOf(by) = Len(rs)

\* A report over three results: one without a status, counted under "0",
\* and two with status 404.
C15_Witness ==
    /\ Reported
    /\ Len(report.results) = 3
    /\ \E i \in 1..3 : report.results[i].status = Null
    /\ DOMAIN report.byStatus = {"0", "404"}
    /\ report.byStatus["0"] = 1
    /\ report.byStatus["404"] = 2

\* C16: generateReport runs only after the queue is empty and every worker
\* has finished: once there is a report, no target is left in the queue and
\* no worker is before the end of its function.
C16_ReportAfterBarrier ==
    (Reported \/ report # NoReport) =>
        /\ Len(queue) = 0
        /\ \A w \in Workers : workers[w].pc = "done"

\* The report of a run of two workers over three targets has just been made.
C16_Witness ==
    /\ mainpc = "reported"
    /\ report # NoReport
    /\ Cardinality(Workers) = 2
    /\ Len(urls) = 3
    /\ Len(report.results) = 3

\* C17: a failed navigation is never fatal to the run: main never takes its
\* error path, the failure is recorded as the outcome of its target, and
\* the report holds one outcome for every target.
C17_FailureIsAnOutcome ==
    /\ mainpc \notin {"aborting", "fatal"}
    /\ \A w \in Workers : workers[w].pc # "rejected"
    /\ \A t \in 1..Len(trace) :
          trace[t].pushed = 1 =>
              \E i \in 1..Len(results) :
                  results[i] = trace[t].outcomes[Len(trace[t].outcomes)]
    /\ Reported => \A t \in 1..Len(trace) : trace[t].pushed = 1

\* One worker, three targets: the navigation to the first failed with an
\* error that was recorded, and the worker went on to the other two, which
\* answered.
C17_Witness ==
    /\ Reported
    /\ Cardinality(Workers) = 1
    /\ Len(urls) = 3
    /\ \E i \in 1..Len(results) :
          /\ results[i].url = urls[1]
          /\ results[i].error = MsgOther
          /\ results[i].status = Null
    /\ \A t \in {2, 3} :
          \E i \in 1..Len(results) : results[i].url = urls[t] /\ results[i].status = 404

\* C19: if the browser cannot be launched, or the page of any worker cannot
\* be created or configured, the whole run ends with a fatal error and no
\* report, also when other workers have recorded outcomes.
C19_SetupFailureIsFatal ==
    runtime = "failed" =>
        /\ mainpc \in {"aborting", "fatal"}
        /\ report = NoReport

\* The run of two workers ended with the fatal error and without a report:
\* one worker's page could not be set up after the other worker had
\* recorded an outcome.
C19_Witness ==
    /\ mainpc = "fatal"
    /\ runtime = "failed"
    /\ report = NoReport
    /\ Cardinality(Workers) = 2
    /\ \E w \in Workers : workers[w].pc = "rejected"
    /\ Len(results) >= 1

\* C18: a run with zero targets ends with a fatal error before any work is
\* started: the browser is never launched, nothing is navigated to or
\* extracted and no report is made, in check-links and in refresh-data.
C18_NoTargetsIsFatal ==
    /\ (mainpc \notin {"off", "args"} /\ Len(urls) = 0) =>
          /\ mainpc \in {"main", "exit1"}
          /\ workers = <<>> /\ created = 0 /\ open = {}
          /\ results = <<>> /\ report = NoReport
    /\ (refresh.pc \notin {"off", "args"} /\ Len(refresh.urls) = 0) =>
          /\ refresh.pc \in {"main", "exit1"}
          /\ refresh.open = 0 /\ refresh.results = <<>>

\* check-links --stdin has read two lines, none of them a url, and has ended
\* with exit code 1.
C18_Witness ==
    /\ mainpc = "exit1"
    /\ source = "stdin" /\ Len(input) = 2
    /\ Len(urls) = 0
    /\ workers = <<>> /\ report = NoReport

\* The extractor the claim names for a url.
ClaimedExtractor(url) ==
    CASE UrlIncludes(url, "instagram.com") -> "instagram"
      [] ~UrlIncludes(url, "instagram.com") /\ UrlIncludes(url, "statista.com") -> "statista"
      [] OTHER -> "generic"

\* C20: getExtractor returns 'instagram' for every url that contains
\* 'instagram.com' (also when it contains 'statista.com' too), 'statista'
\* for every other url that contains 'statista.com' and 'generic' for the
\* rest, and what it returns is always a key of EXTRACTORS: so for the
\* extractor chosen by extractData, the type of the result it returns and
\* the type main gives the url of --url.
C20_GetExtractor ==
    /\ refresh.pc = "extractor" =>
          /\ refresh.kind = ClaimedExtractor(refresh.urls[refresh.next].url)
          /\ refresh.kind \in EXTRACTORS
    /\ \A i \in 1..Len(refresh.results) :
          /\ refresh.results[i].type = ClaimedExtractor(refresh.results[i].url)
          /\ refresh.results[i].type \in EXTRACTORS
    /\ source = "url" =>
          \A i \in 1..Len(refresh.urls) :
              refresh.urls[i].type = ClaimedExtractor(refresh.urls[i].url)

\* The statista extractor runs on a statista url, after the instagram
\* extractor has returned a result for a url that contains both
\* 'instagram.com' and 'statista.com'.
C20_Witness ==
    /\ refresh.pc = "extractor"
    /\ refresh.urls[refresh.next].url = StatistaUrl
    /\ refresh.kind = "statista"
    /\ \E i \in 1..Len(refresh.results) :
          refresh.results[i].url = SharedUrl /\ refresh.results[i].type = "instagram"

\* The run of refresh-data has printed its results.
Printed == refresh.pc \in {"printed", "closed"}

\* C21: extractData never raises: a failure while a url is extracted
\* (navigation, page evaluation, session setup, session close) becomes a
\* result with success false and an error message for that url, so main
\* never leaves its loop through an error of extractData, every call that
\* is over has left a result, and a result has success true only when the
\* extractor completed.
C21_ExtractDataNeverRaises ==
    /\ refresh.pc # "aborting"
    /\ refresh.pc = "rateLimit" => Len(refresh.results) = refresh.next
    /\ \A i \in 1..Len(refresh.results) :
          LET r == refresh.results[i]
          IN  /\ r.url = refresh.urls[i].url
              /\ r.success <=> r.error = NullText

\* C22: an extraction result is produced at most once per target and only
\* for a target whose page is reachable: a result with success true stands
\* for a navigation that returned a 2xx or 3xx status.
C22_ExtractionOnlyWhenReachable ==
    /\ Len(refresh.results) <= Len(refresh.urls)
    /\ \A i \in 1..Len(refresh.results) :
          refresh.results[i].success =>
              /\ refresh.navs[i] # Null
              /\ refresh.navs[i] >= 200 /\ refresh.navs[i] < 400

\* C23: an extraction failure never aborts the batch: when refresh-data is
\* through its N urls the results list has N entries, one per url and in
\* input order, each with success true or false, whatever extractions
\* failed; before that it holds one entry for each url already worked on.
C23_BatchSurvivesFailures ==
    /\ refresh.pc \notin {"aborting", "fatal"}
    /\ Len(refresh.results) <= Len(refresh.urls)
    /\ \A i \in 1..Len(refresh.results) :
          /\ refresh.results[i].url = refresh.urls[i].url
          /\ refresh.results[i].success \in BOOLEAN
    /\ refresh.pc \in {"extractData", "extractor"} => Len(refresh.results) = refresh.next - 1
    /\ refresh.pc = "rateLimit" => Len(refresh.results) = refresh.next
    /\ Printed => Len(refresh.results) = Len(refresh.urls)

\* A run over two urls has printed two results in input order: the first
\* extraction failed in its navigation, the second succeeded.
C23_Witness ==
    /\ Printed
    /\ Len(refresh.urls) = 2 /\ Len(refresh.results) = 2
    /\ refresh.results[1].url = refresh.urls[1].url
    /\ ~refresh.results[1].success /\ refresh.results[1].error = MsgNavTimeout
    /\ refresh.results[2].url = refresh.urls[2].url
    /\ refresh.results[2].success

\* The decimal numeral of a number from 0 to 99, character by character.
Numeral(n) ==
    LET Digit(d) == CHOOSE c \in {"0", "1", "2", "3", "4", "5", "6", "7", "8", "9"} :
                        DigitOf(c) = d
    IN  IF n < 10 THEN <<Digit(n)>> ELSE <<Digit(n \div 10), Digit(n % 10)>>

\* C24: the pool size is configurable only within 1..20: a value N of
\* -c/--concurrency with 1 <= N <= 20 makes the run use exactly N workers,
\* any other supplied value (0, negative, above 20, non-numeric) ends the
\* invocation with an error before the browser is launched and before any
\* navigation, and with no option the pool size is 5.
C24_PoolSizeValidated ==
    mainpc # "args" =>
        IF option = NoOption
        THEN /\ concurrency = 5
             /\ workers # <<>> => Cardinality(Workers) = 5
        ELSE IF \E n \in 1..20 : option = Numeral(n)
        THEN \A n \in 1..20 :
                option = Numeral(n) =>
                    /\ concurrency = n
                    /\ workers # <<>> => Cardinality(Workers) = n
        ELSE /\ mainpc = "exit1"
             /\ workers = <<>> /\ created = 0 /\ report = NoReport

\* C28: a worker leaves its loop only when the queue is empty, also when the
\* list holds an empty or missing url value: no worker is past its loop
\* while entries remain in the queue, and at the report no entry of the
\* list is left without an outcome.
C28_LoopExitsOnEmptyQueue ==
    /\ \A w \in Workers : workers[w].pc \in {"closing", "done"} => Len(queue) = 0
    /\ Reported => \A t \in Targets : trace[t].pushed = 1

\* The workers that hold a target: its first attempt, the backoff or the
\* second attempt is in progress.
Active == {w \in Workers : workers[w].pc \in {"checkUrl", "backoff", "checkUrlAgain"}}

\* C25: between two consecutive targets of one worker there is a fixed
\* inter-request delay step: no worker starts to navigate to its next
\* target in the step in which it records the outcome of the one before.
C25_DelayBetweenTargets ==
    [][\A w \in Workers :
          ~ /\ workers[w].pc \in {"checkUrl", "checkUrlAgain"}
            /\ Len(results') = Len(results) + 1
            /\ workers'[w].pc = "checkUrl"
            /\ workers'[w].target # workers[w].target]_vars

\* C26: session lifecycle: all P pages are created before the first
\* navigation starts, and no page is closed before generateReport has made
\* the report.
C26_SessionLifecycle ==
    /\ (\E t \in 1..Len(trace) : trace[t].navs > 0) => created = Cardinality(Workers)
    /\ created > Cardinality(open) => report # NoReport

\* C27: the queue pop is atomic: every entry taken from the queue is held by
\* exactly one worker or has exactly one outcome, no two workers hold the
\* same entry, and a worker that found the queue non-empty holds the entry
\* that was at its head.
C27_AtomicPop ==
    /\ \A v, w \in Active : workers[v].target = workers[w].target => v = w
    /\ \A w \in Active :
          /\ workers[w].target \in Targets
          /\ workers[w].url = urls[workers[w].target]
    /\ \A t \in 1..Len(trace) :
          LET holders == {w \in Active : workers[w].target = t}
              taken == mainpc # "args" /\ workers # <<>> /\ t <= Len(urls) - Len(queue)
          IN  /\ trace[t].pushed <= 1
              /\ Cardinality(holders) + trace[t].pushed = IF taken THEN 1 ELSE 0

\* Two workers hold the first two of three entries, the third is in the
\* queue.
C27_Witness ==
    /\ Len(urls) = 3 /\ Len(queue) = 1
    /\ Cardinality(Active) = 2
    /\ \E v, w \in Active : workers[v].target = 1 /\ workers[w].target = 2

\* The kind the claim gives an error message: that of the first signature,
\* in the claim's order, which the message contains.
ClaimedKind(message) ==
    LET order == << <<"net::ERR_NAME_NOT_RESOLVED", "DNS_FAILED">>,
                    <<"net::ERR_CONNECTION_REFUSED", "CONNECTION_REFUSED">>,
                    <<"net::ERR_CONNECTION_TIMED_OUT", "TIMEOUT">>,
                    <<"Navigation timeout", "NAV_TIMEOUT">> >>
        matches == {i \in 1..Len(order) : Includes(message, order[i][1])}
    IN  IF matches = {} THEN NullText
        ELSE order[CHOOSE i \in matches : \A j \in matches : i <= j][2]

\* C29: checkUrl gives a navigation error the kind of the first signature
\* it contains, in the order ERR_NAME_NOT_RESOLVED -> DNS_FAILED,
\* ERR_CONNECTION_REFUSED -> CONNECTION_REFUSED, ERR_CONNECTION_TIMED_OUT ->
\* TIMEOUT, 'Navigation timeout' -> NAV_TIMEOUT, each with status 0; an error
\* with none of them has no status and no statusText; and every error
\* outcome is counted in the failed bucket and under the byStatus key "0".
C29_ErrorSignatures ==
    /\ \A t \in 1..Len(trace) : \A i \in 1..Len(trace[t].outcomes) :
          LET r == trace[t].outcomes[i]
          IN  r.error # NullText =>
                  /\ r.statusText = ClaimedKind(r.error)
                  /\ r.status = IF ClaimedKind(r.error) = NullText THEN Null ELSE 0
    /\ Reported =>
          LET errors == {i \in 1..Len(report.results) : report.results[i].error # NullText}
          IN  errors # {} =>
                  /\ report.summary.failed >= Cardinality(errors)
                  /\ "0" \in DOMAIN report.byStatus
                  /\ report.byStatus["0"] >= Cardinality(errors)
                  /\ \A k \in DOMAIN report.byStatus :
                        k # "0" => report.byStatus[k] <= Len(report.results) - Cardinality(errors)

\* A run has been reported whose navigation threw an error with two
\* signatures: the outcome has the kind of the one that is first in the
\* order and is counted as failed and under "0".
C29_Witness ==
    /\ Reported
    /\ Len(report.results) = 1
    /\ report.results[1].error = MsgTwo
    /\ report.results[1].statusText = "CONNECTION_REFUSED"
    /\ report.results[1].status = 0
    /\ report.summary.failed = 1
    /\ report.byStatus = [k \in {"0"} |-> 1]

\* C30: a retry is always preceded by the fixed backoff: a re-attempt in
\* progress has exactly one backoff sleep and one failed attempt behind it
\* on its target, a target has had as many backoff sleeps as re-attempts,
\* and a worker sleeps only when a re-attempt follows (the attempt failed
\* with status 0 and retries are on).
C30_BackoffBeforeRetry ==
    /\ \A w \in Workers :
          /\ workers[w].pc = "checkUrlAgain" =>
                LET tr == trace[workers[w].target]
                IN  /\ tr.sleeps = 1 /\ tr.navs = 2
                    /\ Len(tr.outcomes) = 1 /\ tr.outcomes[1].status = 0
          /\ workers[w].pc = "backoff" =>
                /\ retries > 0
                /\ workers[w].result.status = 0
                /\ trace[workers[w].target].sleeps = 0
    /\ \A t \in 1..Len(trace) :
          /\ trace[t].sleeps = IF trace[t].navs = 0 THEN 0 ELSE trace[t].navs - 1
          /\ trace[t].sleeps = IF Len(trace[t].outcomes) = 0 THEN 0
                               ELSE IF \E w \in Workers : workers[w].pc = "checkUrlAgain"
                                                           /\ workers[w].target = t
                               THEN Len(trace[t].outcomes)
                               ELSE IF \E w \in Workers : workers[w].pc \in {"checkUrl", "backoff"}
                                                           /\ workers[w].target = t
                               THEN 0
                               ELSE Len(trace[t].outcomes) - 1

\* A re-attempt is in progress after a navigation timeout and one backoff
\* sleep.
C30_Witness ==
    \E w \in Workers :
        /\ workers[w].pc = "checkUrlAgain"
        /\ workers[w].result.statusText = "NAV_TIMEOUT"
        /\ trace[workers[w].target].sleeps = 1
        /\ retries = 1

\* C32: the pool size is fixed: never more than P pages exist, each worker
\* has at most its own one, and a finished run has created exactly P pages,
\* whatever the number of targets, retries and failed navigations.
C32_PoolSizeFixed ==
    (mainpc \in {"processing", "reported", "closed"}) =>
        /\ Cardinality(Workers) = concurrency
        /\ created <= concurrency
        /\ created = Cardinality({w \in Workers : workers[w].page # NoPage})
        /\ \A v, w \in Workers :
              (v # w /\ workers[v].page # NoPage) => workers[v].page # workers[w].page
        /\ Reported => created = concurrency

\* Fewer targets than workers, a target that was navigated twice, a failed
\* outcome, and still exactly P pages.
C32_Witness ==
    /\ Reported
    /\ Len(urls) < concurrency
    /\ created = concurrency
    /\ \E t \in Targets : trace[t].navs = 2
    /\ \E i \in 1..Len(report.results) : report.results[i].status = 0

C36_BucketsPartition ==
    Reported =>
        LET rs == report.results
            s == report.summary
            six == {"ok", "redirects", "blocked", "clientErrors", "serverErrors", "failed"}
        IN  /\ DOMAIN s = six \cup {"total"}
            /\ \A b \in six :
                  s[b] = Cardinality({i \in 1..Len(rs) :
                                         TableBucket(OrElse(rs[i].status, 0)) = b})
            /\ SumOf([b \in six |-> s[b]]) = s["total"]
            /\ s["total"] = Len(rs)

\* A report of three results in three buckets, the other three at zero.
C36_Witness ==
    /\ Reported
    /\ Len(report.results) = MaxTargets
    /\ report.summary["ok"] = 1
    /\ report.summary["failed"] = 1
    /\ report.summary["blocked"] = 1
    /\ report.summary["redirects"] = 0

\* The status the fixed answer of its site gives target t.
FixedStatus(t) == CheckUrl(urls[t], CHOOSE o \in ScenarioBackend(urls[t]) : TRUE).status

\* C37: the counts of the report do not depend on scheduling: with the
\* answer of every site fixed, the summary and byStatus of every report are
\* the counts over the list of targets alone, in every interleaving of the
\* workers and for every pool size.
C37_CountsIndependentOfSchedule ==
    Reported =>
        LET six == {"ok", "redirects", "blocked", "clientErrors", "serverErrors", "failed"}
            keys == {HistogramKey(FixedStatus(t)) : t \in Targets}
        IN  /\ report.summary =
                  [b \in six \cup {"total"} |->
                      IF b = "total" THEN Len(urls)
                      ELSE Cardinality({t \in Targets : TableBucket(FixedStatus(t)) = b})]
            /\ report.byStatus =
                  [k \in keys |->
                      Cardinality({t \in Targets : HistogramKey(FixedStatus(t)) = k})]

\* Two workers and a retry: the outcome of A was recorded before that of B,
\* which stands first in the list, and the counts are those of the list.
C37_Witness ==
    /\ Reported
    /\ concurrency = 2 /\ retries = 1
    /\ urls = <<Urls[2], Urls[1], Urls[3]>>
    /\ results[1].url = Urls[1]
    /\ results[3].url = Urls[2]
    /\ report.summary["failed"] = 1
    /\ report.byStatus["0"] = 1

\* C38: refresh-data works on its urls strictly one at a time: at most one
\* page is open in any state; the page opened for a url is closed, after a
\* successful and after a failed extraction, before the page of the next
\* url is opened; and the rate-limit delay follows each extraction before
\* the next one begins.
C38_OneAtATime ==
    /\ [](/\ refresh.open <= 1
          /\ refresh.pc \in {"extractData", "rateLimit", "printed"} => refresh.open = 0
          /\ refresh.pc = "extractor" => refresh.open = 1)
    /\ [][/\ (refresh.pc = "extractor" /\ refresh'.pc # "extractor") =>
                 refresh'.pc = "rateLimit" /\ refresh'.next = refresh.next
          /\ refresh'.next > refresh.next =>
                 refresh.pc \in {"launching", "rateLimit"}]_vars

\* The page of the second url is open after the extraction from the first
\* one failed: its page was closed and the delay has passed.
C38_Witness ==
    /\ refresh.pc = "extractor"
    /\ refresh.next = 2
    /\ refresh.open = 1
    /\ Len(refresh.results) = 1
    /\ ~refresh.results[1].success

\* C33: every fatal outcome of a command run through ref-tools gives the
\* wrapper a non-zero exit status: if the child ended with exit code 1 or
\* without an exit code, the wrapper exits with a status other than 0, and
\* it exits with 0 only if the child ran to its end.
C33_FatalIsNonZero ==
    (wrapper.pc = "exited" /\ Script(wrapper.command) # NullText) =>
        /\ ChildPc \in {"exit1", "fatal", "killed"} => wrapper.status # 0
        /\ wrapper.status = 0 => ChildPc = "closed"

\* C31: every run terminates: on a browser runtime that works, under fair
\* scheduling, the run either ends at once because there is no target, or
\* it reaches the state where every worker has exited, the queue is empty
\* and the report of all M >= 1 targets has been produced, also with more
\* workers than targets.
C31_Terminates ==
    <>(\/ mainpc = "exit1" /\ Len(urls) = 0
       \/ /\ mainpc = "closed"
          /\ Len(urls) >= 1
          /\ queue = <<>>
          /\ \A w \in Workers : workers[w].pc = "done"
          /\ report.summary["total"] = Len(urls))

\* A finished run of more workers than targets, after a retry.
C31_Witness ==
    /\ mainpc = "closed"
    /\ concurrency > Len(urls)
    /\ Len(urls) >= 1
    /\ queue = <<>>
    /\ \A w \in Workers : workers[w].pc = "done"
    /\ \E t \in Targets : trace[t].sleeps = 1
    /\ report.summary["total"] = Len(urls)

\* C34: once the browser has been launched it is closed on every path:
\* after a completed run and after a failure of processUrls,
\* browser.close() is eventually called, exactly once, and no navigation
\* is started after it has been called.
C34_BrowserClosedOnEveryPath ==
    /\ (mainpc = "processing") ~> (mainpc \in {"closed", "fatal"})
    /\ [][mainpc \notin {"closed", "fatal"}]_vars
    /\ [][\A w \in Workers :
             (/\ workers'[w].pc \in {"checkUrl", "checkUrlAgain"}
              /\ workers'[w].pc # workers[w].pc) => mainpc = "processing"]_vars

=============================================================================
